---------------------------- MODULE Spec2Model ----------------------------
(***************************************************************************)
(* Model of api/proj_service.py: the PROJ pipeline parser                  *)
(* proj_string_to_list, the parameter reducer                              *)
(* proj_list_to_infinity_params and the /infinityparams request handler    *)
(* get_infinity_params.                                                    *)
(*                                                                         *)
(* A text is a sequence of pieces.  A piece is a string whose characters   *)
(* all belong to one character class of the regular expression: "+", "=",  *)
(* ",", " " are single characters, every other piece is a run of word      *)
(* characters (\w).  Names and values are the concatenation of the pieces  *)
(* the regular expression captures, so they are ordinary strings.          *)
(*                                                                         *)
(* A Python dict is a function from its keys; an optional value is None    *)
(* (the empty tuple) or Some(v) (a tuple of one string).                   *)
(***************************************************************************)
EXTENDS Integers, Sequences, FiniteSets, TLC

VARIABLES
    entry,            \* the function called from outside
    pc,               \* control location
    target_epsg,      \* handler: request.args.get('epsg', type=int)
    transformers,     \* handler: len(transformerGroup.transformers), -1 before lookup
    proj_string,      \* parser argument / handler local
    pos,              \* parser: position where finditer resumes
    current_step,     \* parser: the step being accumulated
    proj_list,        \* parser result, reducer argument
    examined,         \* reducer: number of steps the for loop has taken
    infinity_params,  \* reducer: the two buckets
    raised,           \* exception in flight or delivered to the caller
    returned,         \* value the reducer returned to its caller
    response,         \* handler: the HTTP response
    calls             \* names of the calls made so far, in order

vars == <<entry, pc, target_epsg, transformers, proj_string, pos, current_step,
          proj_list, examined, infinity_params, raised, returned, response, calls>>

----------------------------------------------------------------------------
(* Bounds *)

MaxPieces == 5

MaxTokens == 4

MaxSteps == 2

----------------------------------------------------------------------------
(* Optional values and dicts *)

None == <<>>

Some(v) == <<v>>

EmptyDict == [k \in {} |-> None]

\* mutant of DictSet: the first value of a key is kept
DictSetFirst(d, key, value) ==
    [k \in (DOMAIN d) \cup {key} |-> IF k \in DOMAIN d THEN d[k] ELSE value]

\* d[key] = value
DictSet(d, key, value) == [k \in (DOMAIN d) \cup {key} |-> IF k = key THEN value ELSE d[k]]

\* mutant of DictMerge: a key already in dst keeps its value
DictMergeKeep(dst, src) ==
    [k \in (DOMAIN dst) \cup (DOMAIN src) |-> IF k \in DOMAIN dst THEN dst[k] ELSE src[k]]

\* for key in src: dst[key] = src[key]
DictMerge(dst, src) == [k \in (DOMAIN dst) \cup (DOMAIN src) |-> IF k \in DOMAIN src THEN src[k] ELSE dst[k]]

RECURSIVE Concat(_)
Concat(ps) == IF ps = <<>> THEN "" ELSE Head(ps) \o Concat(Tail(ps))

----------------------------------------------------------------------------
(* The regular expression _RE_PROJ_PARAM *)

SpaceChars == {" "}

PunctChars == {"+", "=", ","}

\* \s
IsSpace(c) == c \in SpaceChars

\* \S
IsNonSpace(c) == c \notin SpaceChars

\* \w
IsWord(c) == c \notin SpaceChars \cup PunctChars

\* last index of the greedy run \w+ starting at i (i-1 when the run is empty)
WordRunEnd(s, i) ==
    CHOOSE j \in (i-1)..Len(s) :
        /\ \A k \in i..j : IsWord(s[k])
        /\ (j = Len(s) \/ ~IsWord(s[j+1]))

\* last index of the greedy run \S+ starting at i (i-1 when the run is empty)
NonSpaceRunEnd(s, i) ==
    CHOOSE j \in (i-1)..Len(s) :
        /\ \A k \in i..j : IsNonSpace(s[k])
        /\ (j = Len(s) \/ ~IsNonSpace(s[j+1]))

\* the pattern matches at i: '+' followed by at least one word character
MatchesAt(s, i) ==
    /\ i \in 1..Len(s)
    /\ s[i] = "+"
    /\ WordRunEnd(s, i+1) >= i+1

\* the match at i: groups param and value, and the index of its last character
MatchAt(s, i) ==
    LET nameEnd == WordRunEnd(s, i+1)
        valStart == IF nameEnd < Len(s) /\ s[nameEnd+1] = "=" THEN nameEnd + 2 ELSE nameEnd + 1
        valEnd == NonSpaceRunEnd(s, valStart)
    IN  [param |-> Concat(SubSeq(s, i+1, nameEnd)),
         value |-> IF valEnd >= valStart THEN Some(Concat(SubSeq(s, valStart, valEnd))) ELSE None,
         end   |-> valEnd]

\* finditer: start of the leftmost match at or after position p, 0 when there is none
NextMatch(s, p) ==
    IF \E i \in p..Len(s) : MatchesAt(s, i)
    THEN CHOOSE i \in p..Len(s) : MatchesAt(s, i) /\ \A j \in p..(i-1) : ~MatchesAt(s, j)
    ELSE 0

\* list(_RE_PROJ_PARAM.finditer(s)) from position p, as <<param, value>> pairs
RECURSIVE Tokens(_, _)
Tokens(s, p) ==
    LET i == NextMatch(s, p)
    IN  IF i = 0 THEN <<>>
        ELSE <<[param |-> MatchAt(s, i).param, value |-> MatchAt(s, i).value]>>
             \o Tokens(s, MatchAt(s, i).end + 1)


----------------------------------------------------------------------------
(* Inputs *)

Pieces == {"+", "=", " ", "step", "a", "1"}

\* every text of at most MaxPieces pieces
PieceTexts == UNION {[1..n -> Pieces] : n \in 0..MaxPieces}

TokenTexts0 == {<<"+", "step">>, <<"+", "a">>, <<"+", "a", "=", "1">>, <<"+", "a", "=", "2">>,
                <<"+", "b", "=", "1">>}

\* the tokens separated by one space
RECURSIVE Join(_)
Join(ts) ==
    IF ts = <<>> THEN <<>>
    ELSE IF Len(ts) = 1 THEN Head(ts)
    ELSE Head(ts) \o <<" ">> \o Join(Tail(ts))

\* every text of at most MaxTokens well-formed tokens
TokenTexts == {Join(ts) : ts \in UNION {[1..n -> TokenTexts0] : n \in 0..MaxTokens}}

\* "+proj=pipeline +step +proj=cart +step +proj=merc +lon_0=0"
PipelineText ==
    <<"+", "proj", "=", "pipeline", " ", "+", "step", " ", "+", "proj", "=", "cart", " ",
      "+", "step", " ", "+", "proj", "=", "merc", " ", "+", "lon_0", "=", "0">>

\* "+step +step +proj=merc"
StepStepText == <<"+", "step", " ", "+", "step", " ", "+", "proj", "=", "merc">>

\* "+south +lon_0=0"
NoProjText == <<"+", "south", " ", "+", "lon_0", "=", "0">>

\* "+proj=pipeline +step +proj=helmert +x=1 +dx=1 +step +proj=utm +zone=32"
VelocityText ==
    <<"+", "proj", "=", "pipeline", " ", "+", "step", " ", "+", "proj", "=", "helmert", " ",
      "+", "x", "=", "1", " ", "+", "dx", "=", "1", " ", "+", "step", " ",
      "+", "proj", "=", "utm", " ", "+", "zone", "=", "32">>

\* "+proj=pipeline +step +proj=helmert +x=1 +step +proj=utm +zone=32"
HelmertText ==
    <<"+", "proj", "=", "pipeline", " ", "+", "step", " ", "+", "proj", "=", "helmert", " ",
      "+", "x", "=", "1", " ", "+", "step", " ", "+", "proj", "=", "utm", " ", "+", "zone", "=", "32">>

\* "+proj=pipeline +step +proj=somerc +lat_0=46 +step +proj=helmert +dx=1"
SomercText ==
    <<"+", "proj", "=", "pipeline", " ", "+", "step", " ", "+", "proj", "=", "somerc", " ",
      "+", "lat_0", "=", "46", " ", "+", "step", " ", "+", "proj", "=", "helmert", " ",
      "+", "dx", "=", "1">>

\* "+proj=pipeline +step +proj=unitconvert +xy_in=deg +xy_out=rad +step +proj=axisswap +order=2,1"
IgnoredText ==
    <<"+", "proj", "=", "pipeline", " ", "+", "step", " ", "+", "proj", "=", "unitconvert", " ",
      "+", "xy_in", "=", "deg", " ", "+", "xy_out", "=", "rad", " ", "+", "step", " ",
      "+", "proj", "=", "axisswap", " ", "+", "order", "=", "2", ",", "1">>

\* "+proj=merc +lon_0=0 +step +proj=merc +lon_0=9"
TwoMercText ==
    <<"+", "proj", "=", "merc", " ", "+", "lon_0", "=", "0", " ", "+", "step", " ",
      "+", "proj", "=", "merc", " ", "+", "lon_0", "=", "9">>

SampleTexts == {PipelineText, StepStepText, NoProjText, VelocityText, HelmertText, SomercText,
                IgnoredText, TwoMercText, <<>>}

ParserInputs == PieceTexts \cup TokenTexts \cup SampleTexts

----------------------------------------------------------------------------
(* Values that are not in use *)

NoException == [type |-> "", msg |-> ""]

NoResponse == [status |-> 0, error |-> None, infinity_params |-> None]

NoParams == [proj |-> EmptyDict, trf |-> EmptyDict]

----------------------------------------------------------------------------
(* proj_string_to_list *)

TypeOK ==
    /\ entry \in {"get_infinity_params", "proj_string_to_list", "proj_list_to_infinity_params"}
    /\ pc \in {"args", "lookup", "to_proj4", "from_epsg", "call_parser", "parse", "call_reducer",
               "reduce", "except", "respond", "done"}
    /\ pos \in Nat
    /\ examined \in 0..Len(proj_list)

\* mutant of ParseStepToken: the current step is dropped, not appended
ParseStepTokenDrop ==
    /\ pc = "parse"
    /\ NextMatch(proj_string, pos) # 0
    /\ LET m == MatchAt(proj_string, NextMatch(proj_string, pos))
       IN  /\ m.param = "step"
           /\ current_step' = EmptyDict
           /\ pos' = m.end + 1
    /\ UNCHANGED <<entry, pc, target_epsg, transformers, proj_string, proj_list, examined,
                   infinity_params, raised, returned, response, calls>>

\* mutant of ParseStepToken: the current step is appended even when it is empty
ParseStepTokenAlways ==
    /\ pc = "parse"
    /\ NextMatch(proj_string, pos) # 0
    /\ LET m == MatchAt(proj_string, NextMatch(proj_string, pos))
       IN  /\ m.param = "step"
           /\ proj_list' = Append(proj_list, current_step)
           /\ current_step' = EmptyDict
           /\ pos' = m.end + 1
    /\ UNCHANGED <<entry, pc, target_epsg, transformers, proj_string, examined,
                   infinity_params, raised, returned, response, calls>>

\* a '+step' match: close the current step when it is not empty
ParseStepToken ==
    /\ pc = "parse"
    /\ NextMatch(proj_string, pos) # 0
    /\ LET m == MatchAt(proj_string, NextMatch(proj_string, pos))
       IN  /\ m.param = "step"
           /\ IF current_step # EmptyDict
              THEN /\ proj_list' = Append(proj_list, current_step)
                   /\ current_step' = EmptyDict
              ELSE UNCHANGED <<proj_list, current_step>>
           /\ pos' = m.end + 1
    /\ UNCHANGED <<entry, pc, target_epsg, transformers, proj_string, examined,
                   infinity_params, raised, returned, response, calls>>

\* any other match: current_step[key] = value
ParseParamToken ==
    /\ pc = "parse"
    /\ NextMatch(proj_string, pos) # 0
    /\ LET m == MatchAt(proj_string, NextMatch(proj_string, pos))
       IN  /\ m.param # "step"
           /\ current_step' = DictSet(current_step, m.param, m.value)
           /\ pos' = m.end + 1
    /\ UNCHANGED <<entry, pc, target_epsg, transformers, proj_string, proj_list, examined,
                   infinity_params, raised, returned, response, calls>>

\* no match is left: append the last step when it is not empty, return proj_list
ParseReturn ==
    /\ pc = "parse"
    /\ NextMatch(proj_string, pos) = 0
    /\ proj_list' = IF current_step # EmptyDict THEN Append(proj_list, current_step) ELSE proj_list
    /\ pos' = Len(proj_string) + 1
    /\ pc' = IF entry = "get_infinity_params" THEN "call_reducer" ELSE "done"
    /\ UNCHANGED <<entry, target_epsg, transformers, proj_string, current_step, examined,
                   infinity_params, raised, returned, response, calls>>

\* proj_string_to_list has been called with a text
InitParse ==
    /\ entry = "proj_string_to_list"
    /\ pc = "parse"
    /\ target_epsg = None
    /\ transformers = -1
    /\ proj_string \in ParserInputs
    /\ pos = 1
    /\ current_step = EmptyDict
    /\ proj_list = <<>>
    /\ examined = 0
    /\ infinity_params = NoParams
    /\ raised = NoException
    /\ returned = None
    /\ response = NoResponse
    /\ calls = <<"proj_string_to_list">>

NextParse == ParseStepToken \/ ParseParamToken \/ ParseReturn

SpecParse == InitParse /\ [][NextParse]_vars

----------------------------------------------------------------------------
(* proj_list_to_infinity_params *)

ignored_steps == {"push", "pop", "unitconvert", "axisswap", "pipeline", "cart"}

\* mutant of supported_proj: the last name is missing
supported_proj_short == {"merc", "tmerc", "omerc", "utm", "cass", "lcc", "stere"}

supported_proj == {"merc", "tmerc", "omerc", "utm", "cass", "lcc", "stere", "sterea"}

helmert_unsupported_params == {"dx", "dy", "dz", "drx", "dry", "drz", "ds", "t_epoch"}

UnsupportedOperation ==
    [type |-> "NotImplementedError", msg |-> "Unsupported projection type parameter"]

UnsupportedHelmertVariant ==
    [type |-> "NotImplementedError", msg |-> "Unsupported velocity based Helmert transformation"]

KeyErrorProj == [type |-> "KeyError", msg |-> "'proj'"]

\* v in S, for an optional string v
In(v, S) == v # None /\ v[1] \in S

\* the step the for loop takes next
NextStep == proj_list[examined + 1]

\* where control goes when an exception leaves the reducer
AfterRaise == IF entry = "get_infinity_params" THEN "except" ELSE "done"

Reducing == pc = "reduce" /\ examined < Len(proj_list)

\* step["proj"] when the step has no such key
ReduceKeyError ==
    /\ Reducing
    /\ "proj" \notin DOMAIN NextStep
    /\ examined' = examined + 1
    /\ raised' = KeyErrorProj
    /\ pc' = AfterRaise
    /\ UNCHANGED <<entry, target_epsg, transformers, proj_string, pos, current_step, proj_list,
                   infinity_params, returned, response, calls>>

\* mutant of ReduceIgnored: the ignored step is copied into the proj bucket
ReduceIgnoredCopy ==
    /\ Reducing
    /\ "proj" \in DOMAIN NextStep
    /\ In(NextStep["proj"], ignored_steps)
    /\ infinity_params' = [infinity_params EXCEPT !.proj = DictMerge(@, NextStep)]
    /\ examined' = examined + 1
    /\ UNCHANGED <<entry, pc, target_epsg, transformers, proj_string, pos, current_step,
                   proj_list, raised, returned, response, calls>>

\* step["proj"] in ignored_steps: continue
ReduceIgnored ==
    /\ Reducing
    /\ "proj" \in DOMAIN NextStep
    /\ In(NextStep["proj"], ignored_steps)
    /\ examined' = examined + 1
    /\ UNCHANGED <<entry, pc, target_epsg, transformers, proj_string, pos, current_step,
                   proj_list, infinity_params, raised, returned, response, calls>>

\* step["proj"] in supported_proj: copy the step into the proj bucket
ReduceSupported ==
    /\ Reducing
    /\ "proj" \in DOMAIN NextStep
    /\ ~In(NextStep["proj"], ignored_steps)
    /\ In(NextStep["proj"], supported_proj)
    /\ infinity_params' = [infinity_params EXCEPT !.proj = DictMerge(@, NextStep)]
    /\ examined' = examined + 1
    /\ UNCHANGED <<entry, pc, target_epsg, transformers, proj_string, pos, current_step,
                   proj_list, raised, returned, response, calls>>

\* mutant of HasVelocity: only a parameter with a value counts
HasVelocityValue(step) ==
    \E k \in (DOMAIN step) \cap helmert_unsupported_params : step[k] # None

\* step.keys() & helmert_unsupported_params
HasVelocity(step) == (DOMAIN step) \cap helmert_unsupported_params # {}

\* step["proj"] == "helmert": raise on a velocity parameter, else copy into the trf bucket
ReduceHelmert ==
    /\ Reducing
    /\ "proj" \in DOMAIN NextStep
    /\ ~In(NextStep["proj"], ignored_steps)
    /\ ~In(NextStep["proj"], supported_proj)
    /\ NextStep["proj"] = Some("helmert")
    /\ examined' = examined + 1
    /\ IF HasVelocity(NextStep)
       THEN /\ raised' = UnsupportedHelmertVariant
            /\ pc' = AfterRaise
            /\ UNCHANGED infinity_params
       ELSE /\ infinity_params' = [infinity_params EXCEPT !.trf = DictMerge(@, NextStep)]
            /\ UNCHANGED <<raised, pc>>
    /\ UNCHANGED <<entry, target_epsg, transformers, proj_string, pos, current_step,
                   proj_list, returned, response, calls>>

\* mutant of ReduceUnsupported: the failure is recorded and the loop goes on
ReduceUnsupportedGoOn ==
    /\ Reducing
    /\ "proj" \in DOMAIN NextStep
    /\ ~In(NextStep["proj"], ignored_steps)
    /\ ~In(NextStep["proj"], supported_proj)
    /\ NextStep["proj"] # Some("helmert")
    /\ examined' = examined + 1
    /\ raised' = UnsupportedOperation
    /\ UNCHANGED <<entry, pc, target_epsg, transformers, proj_string, pos, current_step,
                   proj_list, infinity_params, returned, response, calls>>

\* any other step["proj"]: raise
ReduceUnsupported ==
    /\ Reducing
    /\ "proj" \in DOMAIN NextStep
    /\ ~In(NextStep["proj"], ignored_steps)
    /\ ~In(NextStep["proj"], supported_proj)
    /\ NextStep["proj"] # Some("helmert")
    /\ examined' = examined + 1
    /\ raised' = UnsupportedOperation
    /\ pc' = AfterRaise
    /\ UNCHANGED <<entry, target_epsg, transformers, proj_string, pos, current_step, proj_list,
                   infinity_params, returned, response, calls>>

\* the loop is over: return infinity_params
ReduceReturn ==
    /\ pc = "reduce"
    /\ examined = Len(proj_list)
    /\ returned' = Some(infinity_params)
    /\ pc' = IF entry = "get_infinity_params" THEN "respond" ELSE "done"
    /\ UNCHANGED <<entry, target_epsg, transformers, proj_string, pos, current_step, proj_list,
                   examined, infinity_params, raised, response, calls>>

\* steps over a few names and parameters, the empty step included
SmallSteps ==
    {s \in UNION {[K -> {Some(v) : v \in {"push", "merc", "utm", "helmert", "somerc", "1", "2"}}] :
                      K \in SUBSET {"proj", "dx", "lon_0"}} :
        /\ "proj" \in DOMAIN s => s["proj"] \in {Some(v) : v \in {"push", "merc", "utm", "helmert", "somerc"}}
        /\ "dx" \in DOMAIN s => s["dx"] = Some("1")
        /\ "lon_0" \in DOMAIN s => s["lon_0"] \in {Some("1"), Some("2")}}

\* one step for every name of the classification tables, and for a flag-style '+proj'
TableSteps ==
    {[k \in {"proj"} |-> v] :
        v \in {Some(n) : n \in {"push", "pop", "unitconvert", "axisswap", "pipeline", "cart",
                                "merc", "tmerc", "omerc", "utm", "cass", "lcc", "stere", "sterea",
                                "helmert", "somerc", "step"}} \cup {None}}

\* a helmert step with one more parameter, with or without a value
HelmertSteps ==
    {[k \in {"proj", n} |-> IF k = "proj" THEN Some("helmert") ELSE v] :
        n \in {"dx", "dy", "dz", "drx", "dry", "drz", "ds", "t_epoch", "x0"}, v \in {None, Some("1")}}

ReducerInputs ==
    UNION {[1..n -> SmallSteps] : n \in 0..MaxSteps}
    \cup {<<s>> : s \in TableSteps \cup HelmertSteps}
    \cup {<<s, t>> : s \in HelmertSteps, t \in {[k \in {"proj"} |-> Some("somerc")]}}

\* proj_list_to_infinity_params has been called with a list of steps
InitReduce ==
    /\ entry = "proj_list_to_infinity_params"
    /\ pc = "reduce"
    /\ target_epsg = None
    /\ transformers = -1
    /\ proj_string = <<>>
    /\ pos = 1
    /\ current_step = EmptyDict
    /\ proj_list \in ReducerInputs
    /\ examined = 0
    /\ infinity_params = NoParams
    /\ raised = NoException
    /\ returned = None
    /\ response = NoResponse
    /\ calls = <<"proj_list_to_infinity_params">>

NextReduce ==
    \/ ReduceKeyError
    \/ ReduceIgnored
    \/ ReduceSupported
    \/ ReduceHelmert
    \/ ReduceUnsupported
    \/ ReduceReturn

SpecReduce == InitReduce /\ [][NextReduce]_vars

----------------------------------------------------------------------------
(* get_infinity_params, the /infinityparams handler *)

\* values of request.args.get('epsg', type=int): missing or not an integer, 0, a code
EpsgInputs == {None, Some(0), Some(3857), Some(21781)}

\* number of transformers the lookup can find
MaxTransformers == 2

\* texts transformer.to_proj4() can give
HandlerTexts == SampleTexts

LookupError == [type |-> "CRSError", msg |-> "Invalid projection"]

ProjError == [type |-> "ProjError", msg |-> "Error creating PROJ string"]

AttributeError == [type |-> "AttributeError", msg |-> "'NoneType' object has no attribute 'name'"]

ErrorResponse(status, msg) == [status |-> status, error |-> Some(msg), infinity_params |-> None]

\* target_epsg = request.args.get(...); answer 400 when it is missing or 0
GetArgs ==
    /\ pc = "args"
    /\ \E e \in EpsgInputs :
        /\ target_epsg' = e
        /\ IF e = None \/ e = Some(0)
           THEN /\ response' = ErrorResponse(400, "Target EPSG code is required as a query parameter.")
                /\ pc' = "done"
           ELSE /\ pc' = "lookup"
                /\ UNCHANGED response
    /\ calls' = Append(calls, "request.args.get")
    /\ UNCHANGED <<entry, transformers, proj_string, pos, current_step, proj_list, examined,
                   infinity_params, raised, returned>>

\* mutant of Lookup: an empty list of transformers is not answered with 400
LookupNoCheck ==
    /\ pc = "lookup"
    /\ calls' = Append(calls, "TransformerGroup")
    /\ \/ /\ raised' = LookupError
          /\ pc' = "except"
          /\ UNCHANGED <<transformers, response>>
       \/ \E n \in 0..MaxTransformers :
            /\ transformers' = n
            /\ pc' = "to_proj4"
            /\ UNCHANGED <<raised, response>>
    /\ UNCHANGED <<entry, target_epsg, proj_string, pos, current_step, proj_list, examined,
                   infinity_params, returned>>

\* TransformerGroup(4326, target_epsg) raises, or finds n transformers; answer 400 when n = 0
Lookup ==
    /\ pc = "lookup"
    /\ calls' = Append(calls, "TransformerGroup")
    /\ \/ /\ raised' = LookupError
          /\ pc' = "except"
          /\ UNCHANGED <<transformers, response>>
       \/ \E n \in 0..MaxTransformers :
            /\ transformers' = n
            /\ IF n = 0
               THEN /\ response' = ErrorResponse(400, "No transformation available to the given EPSG code.")
                    /\ pc' = "done"
               ELSE /\ pc' = "to_proj4"
                    /\ UNCHANGED response
            /\ UNCHANGED raised
    /\ UNCHANGED <<entry, target_epsg, proj_string, pos, current_step, proj_list, examined,
                   infinity_params, returned>>

\* proj_string = transformerGroup.transformers[0].to_proj4()
ToProj4 ==
    /\ pc = "to_proj4"
    /\ calls' = Append(calls, "to_proj4")
    /\ \/ /\ raised' = ProjError
          /\ pc' = "except"
          /\ UNCHANGED proj_string
       \/ /\ proj_string' \in HandlerTexts
          /\ pc' = "from_epsg"
          /\ UNCHANGED raised
    /\ UNCHANGED <<entry, target_epsg, transformers, pos, current_step, proj_list, examined,
                   infinity_params, returned, response>>

\* crs = CRS.from_epsg(target_epsg)
FromEpsg ==
    /\ pc = "from_epsg"
    /\ calls' = Append(calls, "CRS.from_epsg")
    /\ \/ /\ raised' = LookupError
          /\ pc' = "except"
       \/ /\ pc' = "call_parser"
          /\ UNCHANGED raised
    /\ UNCHANGED <<entry, target_epsg, transformers, proj_string, pos, current_step, proj_list,
                   examined, infinity_params, returned, response>>

\* proj_list = proj_string_to_list(proj_string): enter the parser
CallParser ==
    /\ pc = "call_parser"
    /\ calls' = Append(calls, "proj_string_to_list")
    /\ pos' = 1
    /\ current_step' = EmptyDict
    /\ proj_list' = <<>>
    /\ pc' = "parse"
    /\ UNCHANGED <<entry, target_epsg, transformers, proj_string, examined, infinity_params,
                   raised, returned, response>>

\* infinity_params = proj_list_to_infinity_params(proj_list): enter the reducer
CallReducer ==
    /\ pc = "call_reducer"
    /\ calls' = Append(calls, "proj_list_to_infinity_params")
    /\ examined' = 0
    /\ infinity_params' = NoParams
    /\ pc' = "reduce"
    /\ UNCHANGED <<entry, target_epsg, transformers, proj_string, pos, current_step, proj_list,
                   raised, returned, response>>

\* return jsonify({... "infinity_params": infinity_params}); reading the metadata may raise
Respond ==
    /\ pc = "respond"
    /\ calls' = Append(calls, "jsonify")
    /\ \/ /\ raised' = AttributeError
          /\ pc' = "except"
          /\ UNCHANGED response
       \/ /\ response' = [status |-> 200, error |-> None, infinity_params |-> returned]
          /\ pc' = "done"
          /\ UNCHANGED raised
    /\ UNCHANGED <<entry, target_epsg, transformers, proj_string, pos, current_step, proj_list,
                   examined, infinity_params, returned>>

\* except Exception as e: return jsonify({"error": str(e)}), 500
Except ==
    /\ pc = "except"
    /\ response' = ErrorResponse(500, raised.msg)
    /\ pc' = "done"
    /\ UNCHANGED <<entry, target_epsg, transformers, proj_string, pos, current_step, proj_list,
                   examined, infinity_params, raised, returned, calls>>

\* a request for /infinityparams has arrived
Init ==
    /\ entry = "get_infinity_params"
    /\ pc = "args"
    /\ target_epsg = None
    /\ transformers = -1
    /\ proj_string = <<>>
    /\ pos = 1
    /\ current_step = EmptyDict
    /\ proj_list = <<>>
    /\ examined = 0
    /\ infinity_params = NoParams
    /\ raised = NoException
    /\ returned = None
    /\ response = NoResponse
    /\ calls = <<>>

Next ==
    \/ GetArgs
    \/ Lookup
    \/ ToProj4
    \/ FromEpsg
    \/ CallParser
    \/ ParseStepToken
    \/ ParseParamToken
    \/ ParseReturn
    \/ CallReducer
    \/ ReduceKeyError
    \/ ReduceIgnored
    \/ ReduceSupported
    \/ ReduceHelmert
    \/ ReduceUnsupported
    \/ ReduceReturn
    \/ Respond
    \/ Except

Spec == Init /\ [][Next]_vars

----------------------------------------------------------------------------
(* Claims about proj_string_to_list, checked under SpecParse *)

Parsed == entry = "proj_string_to_list" /\ pc = "done"

\* the matches of the whole text
AllTokens == Tokens(proj_string, 1)

IsParam(t) == t.param # "step"

\* C1 as stated: the pipeline text "+proj=pipeline +step +proj=cart +step +proj=merc +lon_0=0"
\* parses to exactly two steps, {proj: cart} then {proj: merc, lon_0: 0}; the leading
\* '+proj=pipeline' does not form a step of its own.
C1_TwoSteps ==
    (Parsed /\ proj_string = PipelineText) =>
        proj_list = << [k \in {"proj"} |-> Some("cart")],
                       [k \in {"proj", "lon_0"} |-> IF k = "proj" THEN Some("merc") ELSE Some("0")] >>

\* C1 amended: the pipeline text parses to exactly three steps, {proj: pipeline}, {proj: cart},
\* {proj: merc, lon_0: 0}; the parameters before the first '+step' form a step of their own.
C1_ThreeSteps ==
    (Parsed /\ proj_string = PipelineText) =>
        proj_list = << [k \in {"proj"} |-> Some("pipeline")],
                       [k \in {"proj"} |-> Some("cart")],
                       [k \in {"proj", "lon_0"} |-> IF k = "proj" THEN Some("merc") ELSE Some("0")] >>

C1_Witness == Parsed /\ proj_string = PipelineText /\ Len(proj_list) = 3

NoStepToken == \A i \in 1..Len(AllTokens) : IsParam(AllTokens[i])

\* C2 as stated: a text without a '+step' token parses to exactly one step, and that step
\* maps the name of every token of the text to that token's value.
C2_OneStepAlways ==
    (Parsed /\ NoStepToken) =>
        /\ Len(proj_list) = 1
        /\ \A i \in 1..Len(AllTokens) :
              /\ AllTokens[i].param \in DOMAIN proj_list[1]
              /\ proj_list[1][AllTokens[i].param] = AllTokens[i].value

\* C2 amended: a text without a '+step' token and with at least one parameter token parses
\* to exactly one step whose names are the names of the tokens, each mapped to the value of
\* the last token with that name; a text without any token parses to the empty list.
C2_OneStepIfAnyToken ==
    (Parsed /\ NoStepToken) =>
        IF AllTokens = <<>>
        THEN proj_list = <<>>
        ELSE /\ Len(proj_list) = 1
             /\ DOMAIN proj_list[1] = {AllTokens[i].param : i \in 1..Len(AllTokens)}
             /\ \A i \in 1..Len(AllTokens) :
                   (\A j \in (i+1)..Len(AllTokens) : AllTokens[j].param # AllTokens[i].param)
                       => proj_list[1][AllTokens[i].param] = AllTokens[i].value

C2_Witness ==
    /\ Parsed
    /\ NoStepToken
    /\ Len(AllTokens) = 2
    /\ AllTokens[1].param = AllTokens[2].param
    /\ AllTokens[1].value # AllTokens[2].value
    /\ Len(proj_list) = 1

\* indices of the parameter tokens that start a maximal run of parameter tokens
RunStarts == {i \in 1..Len(AllTokens) :
                 IsParam(AllTokens[i]) /\ (i = 1 \/ ~IsParam(AllTokens[i-1]))}

\* the run a parameter token belongs to, counted from 1
RunOf(i) == Cardinality({j \in RunStarts : j <= i})

\* C3: the parsed list never holds an empty step nor a step with a key "step", while parsing
\* and at the end; at the end there is one step per maximal non-empty run of parameter tokens,
\* in source order, holding the names of that run.
C3_NoEmptyStep ==
    /\ \A n \in 1..Len(proj_list) : proj_list[n] # EmptyDict /\ "step" \notin DOMAIN proj_list[n]
    /\ "step" \notin DOMAIN current_step
    /\ Parsed =>
          /\ Len(proj_list) = Cardinality(RunStarts)
          /\ \A n \in 1..Len(proj_list) :
                DOMAIN proj_list[n] =
                    {AllTokens[i].param : i \in {j \in 1..Len(AllTokens) :
                                                    IsParam(AllTokens[j]) /\ RunOf(j) = n}}

C3_Witness ==
    /\ Parsed
    /\ Len(AllTokens) >= 4
    /\ ~IsParam(AllTokens[1])
    /\ ~IsParam(AllTokens[2])
    /\ ~IsParam(AllTokens[Len(AllTokens)])
    /\ Len(proj_list) = 1

----------------------------------------------------------------------------
(* Claims about proj_list_to_infinity_params, checked under SpecReduce *)

Reduced == entry = "proj_list_to_infinity_params" /\ pc = "done"

\* the classification tables as the specification lists them
IgnoredNames == {"push", "pop", "unitconvert", "axisswap", "pipeline", "cart"}

SupportedNames == {"merc", "tmerc", "omerc", "utm", "cass", "lcc", "stere", "sterea"}

RejectedHelmertNames == {"dx", "dy", "dz", "drx", "dry", "drz", "ds", "t_epoch"}

HasProj(step) == "proj" \in DOMAIN step

IsIgnoredStep(step) == HasProj(step) /\ step["proj"] \in {Some(n) : n \in IgnoredNames}

IsSupportedStep(step) == HasProj(step) /\ step["proj"] \in {Some(n) : n \in SupportedNames}

IsHelmertStep(step) == HasProj(step) /\ step["proj"] = Some("helmert")

IsUnknownStep(step) ==
    HasProj(step) /\ ~IsIgnoredStep(step) /\ ~IsSupportedStep(step) /\ ~IsHelmertStep(step)

HasRejectedName(step) == \E k \in RejectedHelmertNames : k \in DOMAIN step

IsRejectedStep(step) ==
    ~HasProj(step) \/ IsUnknownStep(step) \/ (IsHelmertStep(step) /\ HasRejectedName(step))

\* the step the loop examined last
LastStep == proj_list[examined]

\* C4: when the step just examined is a helmert step, the reduction has failed with
\* UnsupportedHelmertVariant exactly when the step has one of the names dx, dy, dz, drx, dry,
\* drz, ds, t_epoch, whatever its value; otherwise nothing is raised and every parameter of
\* the step, proj included, is in the trf bucket.
C4_HelmertRejection ==
    (examined >= 1 /\ IsHelmertStep(LastStep)) =>
        IF HasRejectedName(LastStep)
        THEN raised = UnsupportedHelmertVariant /\ returned = None
        ELSE /\ raised = NoException
             /\ \A k \in DOMAIN LastStep :
                   k \in DOMAIN infinity_params.trf /\ infinity_params.trf[k] = LastStep[k]
             /\ infinity_params.trf["proj"] = Some("helmert")

C4_Witness ==
    /\ Reduced
    /\ examined = 1
    /\ IsHelmertStep(LastStep)
    /\ "t_epoch" \in DOMAIN LastStep
    /\ LastStep["t_epoch"] = None
    /\ raised = UnsupportedHelmertVariant

\* C5: when the step just examined has a proj key, the reduction has failed with
\* UnsupportedOperation exactly when the proj value is none of the six ignored operations,
\* none of the eight supported projections and not helmert.
C5_UnknownOperation ==
    (examined >= 1 /\ HasProj(LastStep)) =>
        (raised = UnsupportedOperation <=> IsUnknownStep(LastStep))

C5_Witness ==
    /\ Reduced
    /\ examined = 2
    /\ IsSupportedStep(proj_list[1])
    /\ LastStep["proj"] = Some("somerc")
    /\ raised = UnsupportedOperation

\* C6: when the reduction has reached a step without a proj key, it has failed with the
\* UnsupportedOperation failure and with no other error.
C6_MissingProj ==
    (Reduced /\ examined >= 1 /\ ~HasProj(LastStep)) => raised = UnsupportedOperation

\* last index of a non-empty set of indices
Last(S) == CHOOSE i \in S : \A j \in S : j <= i

\* the steps of one class that have the key k
StepsWith(k, IsClass(_)) ==
    {i \in 1..Len(proj_list) : IsClass(proj_list[i]) /\ k \in DOMAIN proj_list[i]}

\* C7: after a successful reduction, for every parameter name k the proj bucket holds the
\* value of the last supported-projection step that has k and the trf bucket holds the
\* value of the last helmert step that has k.
C7_LastWriteWins ==
    (Reduced /\ returned # None) =>
        \A k \in UNION {DOMAIN proj_list[i] : i \in 1..Len(proj_list)} :
            /\ StepsWith(k, IsSupportedStep) # {} =>
                  /\ k \in DOMAIN returned[1].proj
                  /\ returned[1].proj[k] = proj_list[Last(StepsWith(k, IsSupportedStep))][k]
            /\ StepsWith(k, IsHelmertStep) # {} =>
                  /\ k \in DOMAIN returned[1].trf
                  /\ returned[1].trf[k] = proj_list[Last(StepsWith(k, IsHelmertStep))][k]

C7_Witness ==
    /\ Reduced
    /\ returned # None
    /\ Len(proj_list) = 2
    /\ IsSupportedStep(proj_list[1])
    /\ IsSupportedStep(proj_list[2])
    /\ "lon_0" \in DOMAIN proj_list[1]
    /\ "lon_0" \in DOMAIN proj_list[2]
    /\ proj_list[1]["lon_0"] # proj_list[2]["lon_0"]
    /\ returned[1].proj["lon_0"] = proj_list[2]["lon_0"]

RejectedIndices == {i \in 1..Len(proj_list) : IsRejectedStep(proj_list[i])}

FirstRejected == CHOOSE i \in RejectedIndices : \A j \in RejectedIndices : i <= j

\* C8: the reduction fails exactly when the list has a rejected step; it then stops at the
\* first rejected step, no later step is examined, the failure is the one of that step
\* (UnsupportedOperation for an unknown operation, UnsupportedHelmertVariant for a helmert
\* step with a rejected name) and no value is returned; otherwise every step is examined.
C8_FailFast ==
    /\ examined <= (IF RejectedIndices = {} THEN Len(proj_list) ELSE FirstRejected)
    /\ raised # NoException =>
          /\ RejectedIndices # {}
          /\ examined = FirstRejected
          /\ returned = None
          /\ pc = "done"
          /\ IsUnknownStep(LastStep) => raised = UnsupportedOperation
          /\ IsHelmertStep(LastStep) => raised = UnsupportedHelmertVariant
    /\ Reduced =>
          /\ raised # NoException <=> RejectedIndices # {}
          /\ raised = NoException <=> returned # None
          /\ returned # None => examined = Len(proj_list)

C8_Witness ==
    /\ Reduced
    /\ Len(proj_list) = 2
    /\ IsUnknownStep(proj_list[1])
    /\ IsHelmertStep(proj_list[2])
    /\ HasRejectedName(proj_list[2])
    /\ examined = 1
    /\ raised = UnsupportedOperation
    /\ returned = None

\* the pairs of a bucket all come from examined steps of one class
BucketFrom(bucket, IsClass(_)) ==
    \A k \in DOMAIN bucket :
        \E i \in 1..examined :
            /\ IsClass(proj_list[i])
            /\ k \in DOMAIN proj_list[i]
            /\ proj_list[i][k] = bucket[k]

\* C9: at every point of a reduction every pair of the proj bucket was copied from an
\* examined supported-projection step and every pair of the trf bucket from an examined
\* helmert step; a list of ignored steps only reduces to two empty buckets; a list of
\* supported-projection and ignored steps only never fails and leaves trf empty; a reduction
\* that returns for a list with a helmert step returns a non-empty trf.
C9_BucketSources ==
    /\ BucketFrom(infinity_params.proj, IsSupportedStep)
    /\ BucketFrom(infinity_params.trf, IsHelmertStep)
    /\ (\A i \in 1..Len(proj_list) : IsIgnoredStep(proj_list[i]) \/ IsSupportedStep(proj_list[i])) =>
          /\ raised = NoException
          /\ infinity_params.trf = EmptyDict
    /\ Reduced =>
          /\ (\A i \in 1..Len(proj_list) : IsIgnoredStep(proj_list[i])) =>
                returned = Some([proj |-> EmptyDict, trf |-> EmptyDict])
          /\ (\A i \in 1..Len(proj_list) : IsIgnoredStep(proj_list[i]) \/ IsSupportedStep(proj_list[i])) =>
                returned # None
          /\ (returned # None /\ \E i \in 1..Len(proj_list) : IsHelmertStep(proj_list[i])) =>
                returned[1].trf # EmptyDict

C9_Witness ==
    /\ Reduced
    /\ Len(proj_list) = 2
    /\ IsHelmertStep(proj_list[1])
    /\ IsSupportedStep(proj_list[2])
    /\ returned # None
    /\ returned[1].trf = proj_list[1]
    /\ returned[1].proj = proj_list[2]

----------------------------------------------------------------------------
(* Claim about get_infinity_params, checked under Spec *)

Called(f) == \E i \in 1..Len(calls) : calls[i] = f

\* index of the first call of f, 0 when it was never called
FirstCall(f) == IF Called(f) THEN CHOOSE i \in 1..Len(calls) : calls[i] = f /\ \A j \in 1..(i-1) : calls[j] # f ELSE 0

CoreCalled == Called("proj_string_to_list") \/ Called("proj_list_to_infinity_params")

IsErrorResponse ==
    /\ response.status \in {400, 500}
    /\ response.error # None
    /\ response.infinity_params = None

\* the lookup did not succeed: no epsg, the lookup raised, or it found no transformer
LookupFailed ==
    \/ Called("request.args.get") /\ target_epsg \in {None, Some(0)}
    \/ raised = LookupError /\ calls[Len(calls)] = "TransformerGroup"
    \/ transformers = 0

ReducerFailed == raised \in {UnsupportedOperation, UnsupportedHelmertVariant, KeyErrorProj}

\* C10: the parser and the reducer are called only after the lookup has succeeded, the
\* parser first; a request whose epsg is missing, whose lookup raises or finds no
\* transformer never calls them and is answered with status 400 or 500 and an error field;
\* a request whose reduction fails is answered with an error, never with a success payload.
C10_LookupBeforeCore ==
    /\ CoreCalled =>
          /\ target_epsg \notin {None, Some(0)}
          /\ transformers >= 1
          /\ 0 < FirstCall("TransformerGroup")
          /\ FirstCall("TransformerGroup") < FirstCall("to_proj4")
          /\ FirstCall("to_proj4") < FirstCall("proj_string_to_list")
    /\ Called("proj_list_to_infinity_params") =>
          FirstCall("proj_string_to_list") < FirstCall("proj_list_to_infinity_params")
    /\ LookupFailed => ~CoreCalled
    /\ (pc = "done" /\ (LookupFailed \/ ReducerFailed)) => IsErrorResponse
    /\ response.status = 200 =>
          /\ raised = NoException
          /\ returned # None
          /\ response.infinity_params = returned

C10_Witness ==
    /\ pc = "done"
    /\ raised = UnsupportedHelmertVariant
    /\ Called("proj_list_to_infinity_params")
    /\ response.status = 500

============================================================================
